---- MODULE Spec2Model ----
(***************************************************************************)
(* One wspty session (src/src/server.rs, handle_connection): the bootstrap *)
(* message, the three futures raced by tokio::select! (the websocket       *)
(* reader handle_websocket_incoming, the pty reader handle_pty_incoming,   *)
(* the socket writer write_to_websocket), the unbounded channel between    *)
(* them, the stop channel, and the client / process / socket environment.  *)
(* Bytes are their numeric values; a websocket message is a record         *)
(* [kind, data] with data a sequence of bytes.                             *)
(***************************************************************************)
EXTENDS Integers, Sequences, FiniteSets, TLC

\* ------------------------------------------------------------------ bounds

\* Messages the client delivers in one session, the bootstrap message included.
MaxMsgs == 2
\* Bytes the process produces on its own in one session.
MaxOut == 2

\* ------------------------------------------------------- program constants

\* BytesMut::with_capacity(1024); buffer.resize(1024, 0)
BufferSize == 1024
\* the u16 fields of WindowSize
U16Max == 65535

\* Command::new("/usr/bin/bash")
DefaultCmd == <<47, 117, 115, 114, 47, 98, 105, 110, 47, 98, 97, 115, 104>>

\* ------------------------------------------------------------ byte helpers

\* s[i], or -1 past the end of the input
At(s, i) == IF i >= 1 /\ i <= Len(s) THEN s[i] ELSE -1

\* &data[1..]
Rest(data) == SubSeq(data, 2, Len(data))

Min(a, b) == IF a <= b THEN a ELSE b

\* -------------------------------------------- serde_json::from_slice::<WindowSize>
\* The JSON subset read here: an object whose values are unsigned decimal
\* integers, or a two-element array of them, with optional whitespace.  Every
\* other input is rejected (serde_json also rejects it unless it is a value of
\* another JSON type under a key other than cols and rows, which it skips; the
\* client messages of this model contain no such payload).

ParseErr == [ok |-> FALSE, cols |-> 0, rows |-> 0]

IsWs(c) == c \in {32, 9, 10, 13}

IsDigit(c) == c >= 48 /\ c <= 57

RECURSIVE SkipWs(_, _)
SkipWs(s, i) == IF IsWs(At(s, i)) THEN SkipWs(s, i + 1) ELSE i

RECURSIVE ScanDigits(_, _, _)
ScanDigits(s, i, acc) ==
  IF IsDigit(At(s, i))
    THEN ScanDigits(s, i + 1, IF acc > U16Max THEN acc ELSE acc * 10 + (s[i] - 48))
    ELSE [val |-> acc, next |-> i]

\* a JSON number that fits a u16: no sign, no leading zero, no fraction, no exponent
ParseU16(s, i) ==
  IF ~IsDigit(At(s, i)) THEN [ok |-> FALSE, val |-> 0, next |-> i]
  ELSE IF s[i] = 48 /\ IsDigit(At(s, i + 1)) THEN [ok |-> FALSE, val |-> 0, next |-> i]
  ELSE LET r == ScanDigits(s, i, 0) IN
       IF At(s, r.next) \in {46, 101, 69} \/ r.val > U16Max
         THEN [ok |-> FALSE, val |-> 0, next |-> r.next]
         ELSE [ok |-> TRUE, val |-> r.val, next |-> r.next]

\* the index of the closing quote of a string opened before i, 0 if there is none
RECURSIVE ScanString(_, _)
ScanString(s, i) ==
  LET c == At(s, i) IN
  IF c = 34 THEN i
  ELSE IF c = -1 \/ c = 92 \/ c < 32 THEN 0
  ELSE ScanString(s, i + 1)

KeyCols == <<99, 111, 108, 115>>
KeyRows == <<114, 111, 119, 115>>

\* the members of an object from index i on; cols and rows are -1 while unseen
RECURSIVE ParseMembers(_, _, _, _)
ParseMembers(s, i, cols, rows) ==
  LET k == SkipWs(s, i) IN
  IF At(s, k) # 34 THEN ParseErr
  ELSE LET q == ScanString(s, k + 1) IN
  IF q = 0 THEN ParseErr
  ELSE LET key   == SubSeq(s, k + 1, q - 1)
           colon == SkipWs(s, q + 1) IN
  IF At(s, colon) # 58 THEN ParseErr
  ELSE LET v == ParseU16(s, SkipWs(s, colon + 1)) IN
  IF ~v.ok THEN ParseErr
  ELSE IF (key = KeyCols /\ cols # -1) \/ (key = KeyRows /\ rows # -1) THEN ParseErr
  ELSE LET c2  == IF key = KeyCols THEN v.val ELSE cols
           r2  == IF key = KeyRows THEN v.val ELSE rows
           sep == SkipWs(s, v.next) IN
  IF At(s, sep) = 44 THEN ParseMembers(s, sep + 1, c2, r2)
  ELSE IF At(s, sep) # 125 THEN ParseErr
  ELSE IF SkipWs(s, sep + 1) # Len(s) + 1 THEN ParseErr
  ELSE IF c2 = -1 \/ r2 = -1 THEN ParseErr
  ELSE [ok |-> TRUE, cols |-> c2, rows |-> r2]

\* the sequence form serde accepts for a struct: [cols, rows]
ParseArray(s, i) ==
  LET a == ParseU16(s, SkipWs(s, i)) IN
  IF ~a.ok THEN ParseErr
  ELSE LET comma == SkipWs(s, a.next) IN
  IF At(s, comma) # 44 THEN ParseErr
  ELSE LET b == ParseU16(s, SkipWs(s, comma + 1)) IN
  IF ~b.ok THEN ParseErr
  ELSE LET close == SkipWs(s, b.next) IN
  IF At(s, close) # 93 THEN ParseErr
  ELSE IF SkipWs(s, close + 1) # Len(s) + 1 THEN ParseErr
  ELSE [ok |-> TRUE, cols |-> a.val, rows |-> b.val]

\* a lenient decoder: a payload that does not parse gives the size 0 x 0
ParseWindowSize_Default(s) ==
  LET i == SkipWs(s, 1)
      r == IF At(s, i) = 123
             THEN IF At(s, SkipWs(s, i + 1)) = 125 THEN ParseErr
                  ELSE ParseMembers(s, i + 1, -1, -1)
           ELSE IF At(s, i) = 91 THEN ParseArray(s, i + 1)
           ELSE ParseErr
  IN IF r.ok THEN r ELSE [ok |-> TRUE, cols |-> 0, rows |-> 0]

ParseWindowSize(s) ==
  LET i == SkipWs(s, 1) IN
  IF At(s, i) = 123
    THEN IF At(s, SkipWs(s, i + 1)) = 125 THEN ParseErr
         ELSE ParseMembers(s, i + 1, -1, -1)
  ELSE IF At(s, i) = 91 THEN ParseArray(s, i + 1)
  ELSE ParseErr

\* ------------------------------------------------------------ the messages

Msg(kind, data) == [kind |-> kind, data |-> data]

\* Message::Text(cmd2): the command to run, here "sh"
TextCmd == Msg("Text", <<115, 104>>)
\* tag 0 ++ "hi"
InputHi == Msg("Binary", <<0, 104, 105>>)
\* tag 0 alone
InputEmpty == Msg("Binary", <<0>>)
\* tag 1 ++ {"cols":80,"rows":24}
ResizeOk ==
  Msg("Binary", <<1, 123, 34, 99, 111, 108, 115, 34, 58, 56, 48, 44,
                  34, 114, 111, 119, 115, 34, 58, 50, 52, 125>>)
\* tag 1 ++ {"cols":80   (truncated)
ResizeBad == Msg("Binary", <<1, 123, 34, 99, 111, 108, 115, 34, 58, 56, 48>>)
\* tag 2
Heartbeat == Msg("Binary", <<2>>)
\* a tag that is none of 0, 1, 2
UnknownTag == Msg("Binary", <<3, 104>>)
\* a binary message of no bytes
EmptyBinary == Msg("Binary", <<>>)
PingMsg == Msg("Ping", <<9>>)
CloseMsg == Msg("Close", <<>>)
\* Some(Err(_)) from the stream
StreamErr == Msg("Err", <<>>)

ClientMsgs ==
  {TextCmd, InputHi, InputEmpty, ResizeOk, ResizeBad, Heartbeat,
   UnknownTag, EmptyBinary, PingMsg, CloseMsg}

\* bytes the process writes to the terminal unprompted
ProcBytes == {111}

\* a reply that carries the tag of the request
HeartbeatReply_Tagged == Msg("Binary", <<2>>)

\* Message::Binary(vec![1u8])
HeartbeatReply == Msg("Binary", <<1>>)

\* buffer[..n]: the last byte read is left out
EncodeOutput_Short(bytes) == Msg("Binary", <<0>> \o SubSeq(bytes, 1, Len(bytes) - 1))

\* Message::Binary(buffer[..n + 1].to_vec()) with buffer[0] = 0
EncodeOutput(bytes) == Msg("Binary", <<0>> \o bytes)

IsOutput(m) == m.kind = "Binary" /\ At(m.data, 1) = 0

IsInput(m) == m.kind = "Binary" /\ At(m.data, 1) = 0

IsResize(m) == m.kind = "Binary" /\ At(m.data, 1) = 1

IsHeartbeat(m) == m.kind = "Binary" /\ At(m.data, 1) = 2

\* -------------------------------------------------------------- the state

VARIABLES
  state,      \* handle_connection: Bootstrapping, Running, Terminating, Closed, Failed, Panicked
  cmd,        \* the command handed to PtyCommand
  inbound,    \* items the websocket stream holds, not yet taken by next()
  closedAt,   \* open, or when the stream ended: idle (the session Running, nothing
              \* pending, the pump at next()) or busy; it yields None once drained
  sent,       \* history: every item the client delivered, in arrival order
  wsStatus,   \* handle_websocket_incoming: idle, run, ok, err
  wsPc,       \* recv (at incoming.next()) or write (inside write_all)
  wsBuf,      \* bytes write_all has still to write
  wsHandled,  \* history: the items the pump's loop has taken
  ptyStatus,  \* handle_pty_incoming: idle, run, ok, err
  wrStatus,   \* write_to_websocket: idle, run, ok, err
  queue,      \* the unbounded channel sender -> receiver
  enqHist,    \* history: every message sent on the channel, with its sender
  inflight,   \* socket sends started and not completed: [by, msg]
  wire,       \* socket sends completed, in order: [by, msg]
  ptyIn,      \* bytes the process has been written
  writeCalls, \* history: the argument of every write_all call
  resizes,    \* history: every resize applied, <<cols, rows>>
  ptyOut,     \* bytes the process has produced, not yet read
  ptyRead,    \* history: bytes read from the process
  echoed,     \* how many bytes of ptyIn the process has echoed
  procOpen,   \* the process was spawned and holds its side of the terminal open
  stopSent    \* how many times stop_sender.send(()) ran

vars ==
  <<state, cmd, inbound, closedAt, sent, wsStatus, wsPc, wsBuf, wsHandled,
    ptyStatus, wrStatus, queue, enqHist, inflight, wire, ptyIn, writeCalls,
    resizes, ptyOut, ptyRead, echoed, procOpen, stopSent>>

clientVars == <<inbound, closedAt, sent>>

\* the client has closed or the stream has failed
InClosed == closedAt # "open"
wsVars == <<wsStatus, wsPc, wsBuf, wsHandled>>
chanVars == <<queue, enqHist>>
sockVars == <<inflight, wire>>
procInVars == <<ptyIn, writeCalls, resizes>>
procOutVars == <<ptyOut, ptyRead, echoed, procOpen>>

\* after accept_async, split and unbounded_channel (lines 94-100)
Init ==
  /\ state = "Bootstrapping"
  /\ cmd = DefaultCmd
  /\ inbound = <<>>
  /\ closedAt = "open"
  /\ sent = <<>>
  /\ wsStatus = "idle"
  /\ wsPc = "recv"
  /\ wsBuf = <<>>
  /\ wsHandled = <<>>
  /\ ptyStatus = "idle"
  /\ wrStatus = "idle"
  /\ queue = <<>>
  /\ enqHist = <<>>
  /\ inflight = <<>>
  /\ wire = <<>>
  /\ ptyIn = <<>>
  /\ writeCalls = <<>>
  /\ resizes = <<>>
  /\ ptyOut = <<>>
  /\ ptyRead = <<>>
  /\ echoed = 0
  /\ procOpen = FALSE
  /\ stopSent = 0

\* --------------------------------------------------------- the environment

Live == state \in {"Bootstrapping", "Running"}

\* the client delivers one more message
ClientSend ==
  /\ Live /\ ~InClosed /\ Len(sent) < MaxMsgs
  /\ \E m \in ClientMsgs :
       /\ inbound' = Append(inbound, m)
       /\ sent' = Append(sent, m)
  /\ UNCHANGED <<state, cmd, closedAt, wsVars, ptyStatus, wrStatus, chanVars,
                 sockVars, procInVars, procOutVars, stopSent>>

\* the client closes: the stream ends after what it already holds
ClientClose ==
  /\ Live /\ ~InClosed
  /\ closedAt' = IF state = "Running" /\ inbound = <<>> /\ wsPc = "recv"
                   THEN "idle" ELSE "busy"
  /\ UNCHANGED <<state, cmd, inbound, sent, wsVars, ptyStatus, wrStatus, chanVars,
                 sockVars, procInVars, procOutVars, stopSent>>

\* the stream breaks: one Some(Err(_)) and then the end
ClientFail ==
  /\ Live /\ ~InClosed /\ Len(sent) < MaxMsgs
  /\ inbound' = Append(inbound, StreamErr)
  /\ sent' = Append(sent, StreamErr)
  /\ closedAt' = "busy"
  /\ UNCHANGED <<state, cmd, wsVars, ptyStatus, wrStatus, chanVars,
                 sockVars, procInVars, procOutVars, stopSent>>

\* the process writes a byte to its terminal on its own
ProcEmit ==
  /\ state = "Running" /\ procOpen
  /\ Len(ptyRead) + Len(ptyOut) - echoed < MaxOut
  /\ \E b \in ProcBytes : ptyOut' = Append(ptyOut, b)
  /\ UNCHANGED <<state, cmd, clientVars, wsVars, ptyStatus, wrStatus, chanVars,
                 sockVars, procInVars, ptyRead, echoed, procOpen, stopSent>>

\* the process echoes the next byte it was written
ProcEcho ==
  /\ state = "Running" /\ procOpen
  /\ echoed < Len(ptyIn)
  /\ ptyOut' = Append(ptyOut, ptyIn[echoed + 1])
  /\ echoed' = echoed + 1
  /\ UNCHANGED <<state, cmd, clientVars, wsVars, ptyStatus, wrStatus, chanVars,
                 sockVars, procInVars, ptyRead, procOpen, stopSent>>

\* the process exits and its side of the terminal closes
ProcExit ==
  /\ state = "Running" /\ procOpen
  /\ procOpen' = FALSE
  /\ UNCHANGED <<state, cmd, clientVars, wsVars, ptyStatus, wrStatus, chanVars,
                 sockVars, procInVars, ptyOut, ptyRead, echoed, stopSent>>

\* ------------------------------------------------- channel, socket, select!

\* a bounded channel of capacity 1: a send waits while the channel is full
Send_Bounded(by, m) ==
  /\ Len(queue) < 1
  /\ queue' = Append(queue, m)
  /\ enqHist' = Append(enqHist, [by |-> by, msg |-> m])

\* UnboundedSender::send: the message goes to the back of the channel.  It fails
\* only once the receiver is dropped, which happens when write_to_websocket
\* ends, and then select! has dropped the senders' futures as well.
Send(by, m) ==
  /\ queue' = Append(queue, m)
  /\ enqHist' = Append(enqHist, [by |-> by, msg |-> m])

\* a join: the session goes on until all three futures have completed
SelectState_All(ws, pty, wr) ==
  IF ws # "run" /\ pty # "run" /\ wr # "run" THEN "Terminating" ELSE "Running"

\* tokio::select! over the three futures: the first one to complete ends it
SelectState(ws, pty, wr) ==
  IF ws # "run" \/ pty # "run" \/ wr # "run" THEN "Terminating" ELSE "Running"

\* ------------------------------------------------------ handle_connection

\* the first item is only looked at: unless it is the command it stays in the stream
Bootstrap_Peek ==
  /\ state = "Bootstrapping"
  /\ inbound # <<>> \/ InClosed
  /\ inbound' = IF inbound # <<>> /\ Head(inbound).kind = "Text"
                  THEN Tail(inbound) ELSE inbound
  /\ cmd' = IF inbound # <<>> /\ Head(inbound).kind = "Text"
              THEN Head(inbound).data ELSE DefaultCmd
  /\ \E spawned \in BOOLEAN :
       /\ procOpen' = spawned
       /\ IF spawned
            THEN /\ state' = "Running"
                 /\ wsStatus' = "run" /\ ptyStatus' = "run" /\ wrStatus' = "run"
            ELSE /\ state' = "Failed"
                 /\ UNCHANGED <<wsStatus, ptyStatus, wrStatus>>
  /\ UNCHANGED <<closedAt, sent, wsPc, wsBuf, wsHandled, chanVars, sockVars,
                 procInVars, ptyOut, ptyRead, echoed, stopSent>>

\* the result of run is not looked at: the three futures start without a process
Bootstrap_IgnoreSpawnError ==
  /\ state = "Bootstrapping"
  /\ inbound # <<>> \/ InClosed
  /\ inbound' = IF inbound # <<>> THEN Tail(inbound) ELSE inbound
  /\ cmd' = IF inbound # <<>> /\ Head(inbound).kind = "Text"
              THEN Head(inbound).data ELSE DefaultCmd
  /\ \E spawned \in BOOLEAN : procOpen' = spawned
  /\ state' = "Running"
  /\ wsStatus' = "run" /\ ptyStatus' = "run" /\ wrStatus' = "run"
  /\ UNCHANGED <<closedAt, sent, wsPc, wsBuf, wsHandled, chanVars, sockVars,
                 procInVars, ptyOut, ptyRead, echoed, stopSent>>

\* lines 102-118: take the first item of the stream, choose the command, spawn
Bootstrap ==
  /\ state = "Bootstrapping"
  /\ inbound # <<>> \/ InClosed
  /\ inbound' = IF inbound # <<>> THEN Tail(inbound) ELSE inbound
  /\ cmd' = IF inbound # <<>> /\ Head(inbound).kind = "Text"
              THEN Head(inbound).data ELSE DefaultCmd
  /\ \E spawned \in BOOLEAN :
       /\ procOpen' = spawned
       /\ IF spawned
            THEN /\ state' = "Running"
                 /\ wsStatus' = "run" /\ ptyStatus' = "run" /\ wrStatus' = "run"
            ELSE /\ state' = "Failed"
                 /\ UNCHANGED <<wsStatus, ptyStatus, wrStatus>>
  /\ UNCHANGED <<closedAt, sent, wsPc, wsBuf, wsHandled, chanVars, sockVars,
                 procInVars, ptyOut, ptyRead, echoed, stopSent>>

\* lines 128-129: select! has returned, the other futures are dropped
Finish ==
  /\ state = "Terminating"
  /\ state' = "Closed"
  /\ UNCHANGED <<cmd, clientVars, wsVars, ptyStatus, wrStatus, chanVars, sockVars,
                 procInVars, procOutVars, stopSent>>

\* ----------------------------------------------- handle_websocket_incoming

WsRunning == state = "Running" /\ wsStatus = "run"

\* incoming.next() has an item to give
WsCanTake == WsRunning /\ wsPc = "recv" /\ inbound # <<>>

\* the loop takes the item
WsTake ==
  /\ inbound' = Tail(inbound)
  /\ wsHandled' = Append(wsHandled, Head(inbound))

\* the pump returns with status st
WsReturn(st) ==
  /\ wsStatus' = st
  /\ state' = SelectState(st, ptyStatus, wrStatus)

\* the stop signal is sent from inside the loop, which polls the stream again
WsEnd_InLoop ==
  /\ WsRunning /\ wsPc = "recv"
  /\ IF inbound = <<>>
       THEN InClosed /\ UNCHANGED <<inbound, wsHandled>>
       ELSE Head(inbound).kind = "Err" /\ WsTake
  /\ stopSent' = stopSent + 1
  /\ UNCHANGED <<state, cmd, closedAt, sent, wsStatus, wsPc, wsBuf, ptyStatus, wrStatus,
                 chanVars, sockVars, procInVars, procOutVars>>

\* lines 29, 50-53: None or Some(Err(_)) ends the loop; the stop signal is sent
WsEnd ==
  /\ WsRunning /\ wsPc = "recv"
  /\ IF inbound = <<>>
       THEN InClosed /\ UNCHANGED <<inbound, wsHandled>>
       ELSE Head(inbound).kind = "Err" /\ WsTake
  /\ stopSent' = stopSent + 1
  /\ WsReturn("ok")
  /\ UNCHANGED <<cmd, closedAt, sent, wsPc, wsBuf, ptyStatus, wrStatus, chanVars,
                 sockVars, procInVars, procOutVars>>

\* line 31: data[0] of a binary message of no bytes is out of bounds: a panic,
\* which unwinds handle_connection and the task that runs it
WsPanic ==
  /\ WsCanTake
  /\ Head(inbound).kind = "Binary" /\ Head(inbound).data = <<>>
  /\ WsTake
  /\ wsStatus' = "panic"
  /\ state' = "Panicked"
  /\ UNCHANGED <<cmd, closedAt, sent, wsPc, wsBuf, ptyStatus, wrStatus, chanVars,
                 sockVars, procInVars, procOutVars, stopSent>>

\* write_all(&data): the tag byte is written with the payload
WsInput_WithTag ==
  /\ WsCanTake
  /\ IsInput(Head(inbound))
  /\ WsTake
  /\ LET data == Head(inbound).data IN
     /\ writeCalls' = Append(writeCalls, data)
     /\ wsBuf' = data
     /\ wsPc' = "write"
  /\ UNCHANGED <<state, cmd, closedAt, sent, wsStatus, ptyStatus, wrStatus, chanVars,
                 sockVars, ptyIn, resizes, procOutVars, stopSent>>

\* lines 32-36: data.len() > 0 holds of every message with a tag byte, so
\* write_all is called with &data[1..] whatever its length; write_all of no
\* bytes returns at once
WsInput ==
  /\ WsCanTake
  /\ IsInput(Head(inbound))
  /\ WsTake
  /\ LET data == Head(inbound).data IN
     IF Len(data) > 0
       THEN /\ writeCalls' = Append(writeCalls, Rest(data))
            /\ wsBuf' = Rest(data)
            /\ wsPc' = IF Rest(data) = <<>> THEN "recv" ELSE "write"
       ELSE UNCHANGED <<writeCalls, wsBuf, wsPc>>
  /\ UNCHANGED <<state, cmd, closedAt, sent, wsStatus, ptyStatus, wrStatus, chanVars,
                 sockVars, ptyIn, resizes, procOutVars, stopSent>>

\* after a partial write the whole payload is written again from its start
WsWrite_Retry ==
  /\ WsRunning /\ wsPc = "write"
  /\ \E k \in 1..Len(wsBuf) :
       /\ ptyIn' = ptyIn \o SubSeq(wsBuf, 1, k)
       /\ wsBuf' = IF k = Len(wsBuf) THEN <<>> ELSE wsBuf
       /\ wsPc' = IF k = Len(wsBuf) THEN "recv" ELSE "write"
  /\ UNCHANGED <<state, cmd, clientVars, wsStatus, wsHandled, ptyStatus, wrStatus,
                 chanVars, sockVars, writeCalls, resizes, procOutVars, stopSent>>

\* line 34, inside write_all: the terminal takes some of the remaining bytes
WsWrite ==
  /\ WsRunning /\ wsPc = "write"
  /\ \E k \in 1..Len(wsBuf) :
       /\ ptyIn' = ptyIn \o SubSeq(wsBuf, 1, k)
       /\ wsBuf' = SubSeq(wsBuf, k + 1, Len(wsBuf))
       /\ wsPc' = IF k = Len(wsBuf) THEN "recv" ELSE "write"
  /\ UNCHANGED <<state, cmd, clientVars, wsStatus, wsHandled, ptyStatus, wrStatus,
                 chanVars, sockVars, writeCalls, resizes, procOutVars, stopSent>>

\* line 34: a write fails, `?` returns the error past the stop signal
WsWriteFail ==
  /\ WsRunning /\ wsPc = "write"
  /\ WsReturn("err")
  /\ UNCHANGED <<cmd, clientVars, wsPc, wsBuf, wsHandled, ptyStatus, wrStatus,
                 chanVars, sockVars, procInVars, procOutVars, stopSent>>

\* lines 37-40: decode the payload and resize; either `?` returns the error
WsResize ==
  /\ WsCanTake
  /\ IsResize(Head(inbound))
  /\ WsTake
  /\ LET size == ParseWindowSize(Rest(Head(inbound).data)) IN
     \E resized \in BOOLEAN :
       IF size.ok /\ resized
         THEN /\ resizes' = Append(resizes, <<size.cols, size.rows>>)
              /\ UNCHANGED <<state, wsStatus>>
         ELSE /\ WsReturn("err")
              /\ UNCHANGED resizes
  /\ UNCHANGED <<cmd, closedAt, sent, wsPc, wsBuf, ptyStatus, wrStatus, chanVars,
                 sockVars, ptyIn, writeCalls, procOutVars, stopSent>>

\* the pump sends the reply on the socket itself
WsHeartbeat_Direct ==
  /\ WsCanTake
  /\ IsHeartbeat(Head(inbound))
  /\ WsTake
  /\ inflight' = Append(inflight, [by |-> "ws", msg |-> HeartbeatReply])
  /\ UNCHANGED <<state, cmd, closedAt, sent, wsStatus, wsPc, wsBuf, ptyStatus,
                 wrStatus, chanVars, wire, procInVars, procOutVars, stopSent>>

\* lines 41-43: the heartbeat reply goes on the channel
WsHeartbeat ==
  /\ WsCanTake
  /\ IsHeartbeat(Head(inbound))
  /\ WsTake
  /\ Send("ws", HeartbeatReply)
  /\ UNCHANGED <<state, cmd, closedAt, sent, wsStatus, wsPc, wsBuf, ptyStatus,
                 wrStatus, sockVars, procInVars, procOutVars, stopSent>>

\* the Pong is built without the payload of the Ping
WsPing_NoPayload ==
  /\ WsCanTake
  /\ Head(inbound).kind = "Ping"
  /\ WsTake
  /\ Send("ws", Msg("Pong", <<>>))
  /\ UNCHANGED <<state, cmd, closedAt, sent, wsStatus, wsPc, wsBuf, ptyStatus,
                 wrStatus, sockVars, procInVars, procOutVars, stopSent>>

\* line 46: a Ping is answered with a Pong of the same payload, on the channel
WsPing ==
  /\ WsCanTake
  /\ Head(inbound).kind = "Ping"
  /\ WsTake
  /\ Send("ws", Msg("Pong", Head(inbound).data))
  /\ UNCHANGED <<state, cmd, closedAt, sent, wsStatus, wsPc, wsBuf, ptyStatus,
                 wrStatus, sockVars, procInVars, procOutVars, stopSent>>

\* the catch-all arms return an error instead of ()
WsIgnore_Error ==
  /\ WsCanTake
  /\ LET m == Head(inbound) IN
     IF m.kind = "Binary"
       THEN m.data # <<>> /\ m.data[1] \notin {0, 1, 2}
       ELSE m.kind \notin {"Ping", "Err"}
  /\ WsTake
  /\ WsReturn("err")
  /\ UNCHANGED <<cmd, closedAt, sent, wsPc, wsBuf, ptyStatus,
                 wrStatus, chanVars, sockVars, procInVars, procOutVars, stopSent>>

\* lines 44, 47: any other tag and any other kind of message does nothing
WsIgnore ==
  /\ WsCanTake
  /\ LET m == Head(inbound) IN
     IF m.kind = "Binary"
       THEN m.data # <<>> /\ m.data[1] \notin {0, 1, 2}
       ELSE m.kind \notin {"Ping", "Err"}
  /\ WsTake
  /\ UNCHANGED <<state, cmd, closedAt, sent, wsStatus, wsPc, wsBuf, ptyStatus,
                 wrStatus, chanVars, sockVars, procInVars, procOutVars, stopSent>>

\* ------------------------------------------------------ handle_pty_incoming

PtyRunning == state = "Running" /\ ptyStatus = "run"

PtyReturn(st) ==
  /\ ptyStatus' = st
  /\ state' = SelectState(wsStatus, st, wrStatus)

\* buffer[1..n + 1] is sent: the frame has no tag byte
PtyRead_NoTag ==
  /\ PtyRunning /\ ptyOut # <<>>
  /\ \E n \in 1..Min(Len(ptyOut), BufferSize - 1) :
       /\ Send("pty", Msg("Binary", SubSeq(ptyOut, 1, n)))
       /\ ptyRead' = ptyRead \o SubSeq(ptyOut, 1, n)
       /\ ptyOut' = SubSeq(ptyOut, n + 1, Len(ptyOut))
  /\ UNCHANGED <<state, cmd, clientVars, wsVars, ptyStatus, wrStatus, sockVars,
                 procInVars, echoed, procOpen, stopSent>>

\* lines 64-73: a read of n > 0 bytes into buffer[1..]; buffer[..n + 1] is sent
PtyRead ==
  /\ PtyRunning /\ ptyOut # <<>>
  /\ \E n \in 1..Min(Len(ptyOut), BufferSize - 1) :
       /\ Send("pty", EncodeOutput(SubSeq(ptyOut, 1, n)))
       /\ ptyRead' = ptyRead \o SubSeq(ptyOut, 1, n)
       /\ ptyOut' = SubSeq(ptyOut, n + 1, Len(ptyOut))
  /\ UNCHANGED <<state, cmd, clientVars, wsVars, ptyStatus, wrStatus, sockVars,
                 procInVars, echoed, procOpen, stopSent>>

\* a read of no bytes is sent like any other, as a frame of the tag alone, and
\* the loop goes on
PtyEof_EmptyFrame ==
  /\ PtyRunning /\ ptyOut = <<>> /\ ~procOpen
  /\ Send("pty", EncodeOutput(<<>>))
  /\ UNCHANGED <<state, cmd, clientVars, wsVars, ptyStatus, wrStatus, sockVars,
                 procInVars, procOutVars, stopSent>>

\* lines 67-69: a read of no bytes ends the loop
PtyEof ==
  /\ PtyRunning /\ ptyOut = <<>> /\ ~procOpen
  /\ PtyReturn("ok")
  /\ UNCHANGED <<cmd, clientVars, wsVars, wrStatus, chanVars, sockVars,
                 procInVars, procOutVars, stopSent>>

\* line 66: the read fails (a terminal whose other side is closed gives EIO)
PtyReadFail ==
  /\ PtyRunning /\ ~procOpen
  /\ PtyReturn("err")
  /\ UNCHANGED <<cmd, clientVars, wsVars, wrStatus, chanVars, sockVars,
                 procInVars, procOutVars, stopSent>>

\* ------------------------------------------------------- write_to_websocket

WrRunning == state = "Running" /\ wrStatus = "run"

\* the receiver gives the newest message instead of the oldest
WrRecv_Last ==
  /\ state = "Running" /\ wrStatus = "run" /\ inflight = <<>> /\ queue # <<>>
  /\ inflight' = <<[by |-> "writer", msg |-> queue[Len(queue)]]>>
  /\ queue' = SubSeq(queue, 1, Len(queue) - 1)
  /\ UNCHANGED <<state, cmd, clientVars, wsVars, ptyStatus, wrStatus, enqHist, wire,
                 procInVars, procOutVars, stopSent>>

\* line 87: receiver.recv() gives the message at the front of the channel.  It
\* gives None only when every sender is dropped, and the two pumps hold theirs
\* for as long as select! runs.
WrRecv ==
  /\ WrRunning /\ inflight = <<>> /\ queue # <<>>
  /\ inflight' = <<[by |-> "writer", msg |-> Head(queue)]>>
  /\ queue' = Tail(queue)
  /\ UNCHANGED <<state, cmd, clientVars, wsVars, ptyStatus, wrStatus, enqHist, wire,
                 procInVars, procOutVars, stopSent>>

\* line 88: outgoing.send(msg) completes
WrSent ==
  /\ WrRunning /\ inflight # <<>>
  /\ wire' = Append(wire, Head(inflight))
  /\ inflight' = Tail(inflight)
  /\ UNCHANGED <<state, cmd, clientVars, wsVars, ptyStatus, wrStatus, chanVars,
                 procInVars, procOutVars, stopSent>>

\* line 88: outgoing.send(msg) fails
WrSendFail ==
  /\ WrRunning /\ inflight # <<>>
  /\ wrStatus' = "err"
  /\ state' = SelectState(wsStatus, ptyStatus, "err")
  /\ UNCHANGED <<cmd, clientVars, wsVars, ptyStatus, chanVars, sockVars,
                 procInVars, procOutVars, stopSent>>

\* ------------------------------------------------------- the specifications

\* what the session itself does
Program ==
  \/ Bootstrap \/ Finish
  \/ WsEnd \/ WsPanic \/ WsInput \/ WsWrite \/ WsWriteFail
  \/ WsResize \/ WsHeartbeat \/ WsPing \/ WsIgnore
  \/ PtyRead \/ PtyEof \/ PtyReadFail
  \/ WrRecv \/ WrSent \/ WrSendFail

Client == ClientSend \/ ClientClose \/ ClientFail

\* any client, and a process that writes what it likes and may exit
Next == Client \/ ProcEmit \/ ProcExit \/ Program

Spec == Init /\ [][Next]_vars

\* any client, and a process that echoes what it is written and may exit
NextEcho == Client \/ ProcEcho \/ ProcExit \/ Program

\* The runtime polls a future whose awaited operation can complete, the echoing
\* process reads its input and writes it back, and the socket takes what it is
\* sent unless the send fails.
SpecEcho ==
  /\ Init /\ [][NextEcho]_vars
  /\ WF_vars(WsWrite) /\ WF_vars(ProcEcho)
  /\ WF_vars(PtyRead) /\ WF_vars(PtyEof)
  /\ WF_vars(WrRecv) /\ WF_vars(WrSent)

\* ------------------------------------------------------------- the claims

IsPrefix(s, t) == Len(s) <= Len(t) /\ SubSeq(t, 1, Len(s)) = s

WireMsgs == [i \in 1..Len(wire) |-> wire[i].msg]
InflightMsgs == [i \in 1..Len(inflight) |-> inflight[i].msg]
EnqMsgs == [i \in 1..Len(enqHist) |-> enqHist[i].msg]

Count(ms, P(_)) == Cardinality({i \in 1..Len(ms) : P(ms[i])})

\* the payloads of the Input frames of ms, concatenated
RECURSIVE InputBytes(_)
InputBytes(ms) ==
  IF ms = <<>> THEN <<>>
  ELSE (IF IsInput(Head(ms)) THEN Rest(Head(ms).data) ELSE <<>>) \o InputBytes(Tail(ms))

\* the payloads of the Output frames of ms, concatenated
RECURSIVE OutputBytes(_)
OutputBytes(ms) ==
  IF ms = <<>> THEN <<>>
  ELSE (IF IsOutput(Head(ms)) THEN Rest(Head(ms).data) ELSE <<>>) \o OutputBytes(Tail(ms))

IsReply(m) == m = Msg("Binary", <<1>>)

\* one of the three futures has returned (or panicked)
AnyEnded ==
  \/ wsStatus \notin {"idle", "run"}
  \/ ptyStatus \notin {"idle", "run"}
  \/ wrStatus \notin {"idle", "run"}

\* C1: the frames sent on the socket are, in order, the first frames put on the
\* channel, whoever put them there; at most one frame is taken from the channel
\* and not yet sent, and what is sent, in flight and still queued is exactly
\* what was put on the channel, in that order.
C1_WireIsPrefixOfEnqueued ==
  /\ IsPrefix(WireMsgs, EnqMsgs)
  /\ Len(inflight) <= 1
  /\ WireMsgs \o InflightMsgs \o queue = EnqMsgs

\* frames of both pumps have reached the socket
C1_Witness ==
  /\ Len(wire) >= 2
  /\ {enqHist[i].by : i \in 1..Len(wire)} = {"ws", "pty"}

\* C2: at most one frame is being sent on the socket, every frame in flight or
\* sent was put there by the writer, and every frame a pump produced went on
\* the channel.
C2_SingleWriter ==
  /\ Len(inflight) <= 1
  /\ \A i \in 1..Len(inflight) : inflight[i].by = "writer"
  /\ \A i \in 1..Len(wire) : wire[i].by = "writer"
  /\ \A i \in 1..Len(enqHist) : enqHist[i].by \in {"ws", "pty"}
  /\ Len(wire) + Len(inflight) + Len(queue) = Len(enqHist)

\* a frame is in flight while both pumps have frames waiting behind it
C2_Witness ==
  /\ Len(inflight) = 1
  /\ Len(queue) >= 2
  /\ {enqHist[i].by : i \in 1..Len(enqHist)} = {"ws", "pty"}

\* C3: once one of the three futures has ended the session is no longer
\* Running, and from then on nothing is sent, queued, written to or read from
\* the process, and no message is taken from the stream.
C3_FirstToFinishEndsAll ==
  /\ [](AnyEnded => state \notin {"Bootstrapping", "Running"})
  /\ [][AnyEnded => UNCHANGED <<wire, inflight, queue, enqHist, ptyIn, ptyOut, ptyRead,
                                resizes, writeCalls, inbound, wsHandled>>]_vars

\* the session is closed with frames still on the channel
C3_Witness == state = "Closed" /\ queue # <<>> /\ inbound # <<>>

\* C4: a session that is Closed has had the stop signal sent.
C4_ClosedImpliesStopSent == state = "Closed" => stopSent >= 1

\* C5: when the websocket pump has returned, with Ok or with an error, it has
\* sent the stop signal.
C5_PumpEndSendsStop == wsStatus \in {"ok", "err"} => stopSent >= 1

\* C6: a session that is Closed and whose inbound stream ended while it was
\* Running, with nothing pending, has had the stop signal sent exactly once.
C6_StreamEndStopsOnce ==
  (state = "Closed" /\ closedAt = "idle") => stopSent = 1

\* C7: there are as many one-byte replies of value 1 on the channel as
\* heartbeats handled, and the step that handles a heartbeat puts that reply at
\* the back of the channel and neither writes to nor resizes the process.
C7_HeartbeatReply ==
  /\ [](Count(EnqMsgs, IsReply) = Count(wsHandled, IsHeartbeat))
  /\ [][(wsHandled' # wsHandled /\ IsHeartbeat(Head(inbound)))
          => /\ queue' = Append(queue, Msg("Binary", <<1>>))
             /\ enqHist' = Append(enqHist, [by |-> "ws", msg |-> Msg("Binary", <<1>>)])
             /\ UNCHANGED <<ptyIn, writeCalls, resizes, wsPc, wsBuf, inflight, wire>>]_vars

\* the reply is on the wire ahead of an Output frame
C7_Witness ==
  \E i, j \in 1..Len(wire) :
    i < j /\ IsReply(wire[i].msg) /\ IsOutput(wire[j].msg) /\ Len(wire[j].msg.data) > 1

\* C8 as stated: with the echoing process still running, once the session is
\* Closed without any of its futures having failed, every Input payload the
\* pump handled has come back on the wire as Output.
C8_EchoObservedWhenClosed ==
  (/\ state = "Closed" /\ procOpen
   /\ wsStatus # "err" /\ ptyStatus # "err" /\ wrStatus # "err")
    => OutputBytes(WireMsgs) = InputBytes(wsHandled)

\* C8, amended: with the echoing process the Output payloads on the wire are
\* always the first bytes of the Input payloads handled, and once an Input
\* payload has been handled they become all of them, unless the session
\* leaves Running first.
C8_EchoReachesWire ==
  /\ [](IsPrefix(OutputBytes(WireMsgs), InputBytes(wsHandled)))
  /\ (InputBytes(wsHandled) # <<>>)
       ~> (state # "Running" \/ OutputBytes(WireMsgs) = InputBytes(wsHandled))

\* "hi" has gone to the process and come back on the wire
C8_Witness ==
  /\ state = "Running"
  /\ InputBytes(wsHandled) = <<104, 105>>
  /\ OutputBytes(WireMsgs) = <<104, 105>>

\* what the client delivered after the first item
Later == IF sent = <<>> THEN <<>> ELSE Tail(sent)

\* C9: leaving Bootstrapping takes exactly the first item of the stream, a
\* Text gives the command and anything else the default one, with no effect on
\* the process or the channel; and all that is ever written, resized or
\* replied comes from the items after the first.
C9_BootstrapConsumesFirst ==
  /\ [](/\ IsPrefix(ptyIn, InputBytes(Later))
        /\ Len(writeCalls) <= Count(Later, IsInput)
        /\ Len(resizes) <= Count(Later, IsResize)
        /\ Count(EnqMsgs, IsReply) <= Count(Later, IsHeartbeat))
  /\ [][(state = "Bootstrapping" /\ state' # "Bootstrapping")
          => /\ IF inbound = <<>>
                  THEN inbound' = inbound /\ cmd' = DefaultCmd
                  ELSE /\ inbound' = Tail(inbound)
                       /\ cmd' = IF Head(inbound).kind = "Text"
                                   THEN Head(inbound).data ELSE DefaultCmd
             /\ UNCHANGED <<ptyIn, writeCalls, resizes, queue, enqHist, wsHandled>>]_vars

\* the first message was an Input frame, the default command runs, the pump
\* has handled what followed and the process was written nothing
C9_Witness ==
  /\ sent # <<>> /\ sent[1] = InputHi
  /\ cmd = DefaultCmd
  /\ wsHandled = <<Heartbeat>>
  /\ ptyIn = <<>> /\ writeCalls = <<>>

\* C10: the step that handles an Input frame of no payload writes nothing and
\* leaves no write in progress; the bytes written to the process change only
\* inside the write of an Input frame with a payload, by bytes of that payload.
C10_EmptyInputWritesNothing ==
  [][/\ (wsHandled' # wsHandled /\ IsInput(Head(inbound))
           /\ Rest(Head(inbound).data) = <<>>)
          => (ptyIn' = ptyIn /\ wsPc' = "recv" /\ wsBuf' = <<>>)
     /\ (ptyIn' # ptyIn)
          => /\ wsPc = "write" /\ wsBuf # <<>>
             /\ IsInput(wsHandled[Len(wsHandled)])
             /\ Len(wsHandled[Len(wsHandled)].data) > 1
             /\ ptyIn' \o wsBuf' = ptyIn \o wsBuf]_vars

\* an Input frame of no payload has been handled and the pump is back at next()
C10_Witness ==
  /\ wsHandled = <<InputEmpty>>
  /\ wsStatus = "run" /\ wsPc = "recv"
  /\ ptyIn = <<>>

\* a binary message with a tag other than 0, 1, 2, or a message that is neither
\* binary nor a Ping
IsIgnored(m) ==
  \/ m.kind = "Binary" /\ m.data # <<>> /\ m.data[1] \notin {0, 1, 2}
  \/ m.kind \in {"Text", "Pong", "Close"}

\* C11: the step that takes an ignored message writes nothing, resizes nothing,
\* queues nothing, sends no stop signal, and leaves the pump running at next().
C11_OtherMessagesIgnored ==
  [][(wsHandled' # wsHandled /\ IsIgnored(Head(inbound)))
       => /\ UNCHANGED <<ptyIn, writeCalls, resizes, queue, enqHist, inflight, wire,
                         stopSent, state>>
          /\ wsStatus' = "run" /\ wsPc' = "recv" /\ wsBuf' = wsBuf]_vars

\* a message with an unknown tag was taken, and the pump went on to next(),
\* where it found the end of the stream
C11_Witness ==
  /\ wsHandled = <<UnknownTag>>
  /\ wsStatus = "ok" /\ stopSent = 1
  /\ ptyIn = <<>> /\ resizes = <<>> /\ enqHist = <<>>

IsPing(m) == m.kind = "Ping"

IsPong(m) == m.kind = "Pong"

\* C12: there are as many Pongs on the channel as Pings taken, and the step
\* that takes a Ping of payload D puts one Pong of payload D at the back of
\* the channel and has no effect on the process.
C12_PingAnsweredByPong ==
  /\ [](Count(EnqMsgs, IsPong) = Count(wsHandled, IsPing))
  /\ [][(wsHandled' # wsHandled /\ IsPing(Head(inbound)))
          => /\ queue' = Append(queue, [kind |-> "Pong", data |-> Head(inbound).data])
             /\ Len(enqHist') = Len(enqHist) + 1
             /\ UNCHANGED <<ptyIn, writeCalls, resizes, wsPc, wsBuf, wsStatus, state,
                            stopSent>>]_vars

\* the Pong of the Ping sent is on the wire
C12_Witness ==
  /\ wsHandled = <<PingMsg>>
  /\ WireMsgs = <<[kind |-> "Pong", data |-> <<9>>]>>

\* C13: in every Running state, whatever the channel holds, a Resize frame at
\* the head of the stream can be taken and applied by a step that leaves the
\* channel as it is, and output the process has produced can be read and
\* queued: neither pump waits for the other or for room on the channel.
C13_PumpsNeverBlockOnChannel ==
  /\ [](state = "Running" =>
          /\ (wsPc = "recv" /\ inbound # <<>> /\ IsResize(Head(inbound)))
               => WsCanTake
          /\ (wsPc = "recv" /\ inbound # <<>> /\ IsHeartbeat(Head(inbound)))
               => ENABLED WsHeartbeat
          /\ ptyOut # <<>>
               => ENABLED (PtyRead /\ UNCHANGED <<resizes, inbound, wsHandled>>))
  /\ [][(wsHandled' # wsHandled /\ Head(inbound) = ResizeOk /\ wsStatus' = "run")
          => /\ resizes' = Append(resizes, <<80, 24>>)
             /\ UNCHANGED <<queue, enqHist, ptyOut, ptyRead>>]_vars

\* a resize has been applied while an Output frame waits on the channel and
\* the process has more output to read
C13_Witness ==
  /\ state = "Running"
  /\ resizes = <<(<<80, 24>>)>>
  /\ \E i \in 1..Len(queue) : IsOutput(queue[i])
  /\ ptyOut # <<>>

\* C14: a read of n > 0 bytes takes the first n bytes the process has produced
\* and puts exactly one frame on the channel, of n + 1 bytes, the first one 0
\* and the others the bytes read in their order; at every moment the payloads
\* of the Output frames put on the channel, concatenated, are the bytes read
\* from the process so far.
C14_ReadEnqueuesOneOutputFrame ==
  /\ [](OutputBytes(EnqMsgs) = ptyRead)
  /\ [][ptyRead' # ptyRead
          => LET n == Len(ptyRead') - Len(ptyRead)
                 bytes == SubSeq(ptyOut, 1, n)
                 f == enqHist'[Len(enqHist')]
             IN /\ n >= 1 /\ n <= Len(ptyOut)
                /\ ptyRead' = ptyRead \o bytes
                /\ ptyOut' = SubSeq(ptyOut, n + 1, Len(ptyOut))
                /\ enqHist' = Append(enqHist, f)
                /\ queue' = Append(queue, f.msg)
                /\ f.by = "pty" /\ f.msg.kind = "Binary"
                /\ Len(f.msg.data) = n + 1
                /\ f.msg.data[1] = 0
                /\ SubSeq(f.msg.data, 2, n + 1) = bytes]_vars

\* one read took the two bytes the process echoed, and the frame is on the channel
C14_Witness ==
  /\ ptyRead = <<104, 105>>
  /\ enqHist = <<[by |-> "pty", msg |-> Msg("Binary", <<0, 104, 105>>)]>>

\* C15: the process-to-client pump returns Ok only on a read of no bytes (the
\* process has closed its side and all its output was read); that step puts
\* nothing on the channel, so no frame of the pump is ever without payload, and
\* it moves the session to Terminating, from where the only step, always
\* possible, leads to Closed.
C15_ZeroReadEndsPumpNormally ==
  /\ [](/\ \A i \in 1..Len(enqHist) :
             enqHist[i].by = "pty" => Len(enqHist[i].msg.data) > 1
        /\ ptyStatus = "ok" => state \in {"Terminating", "Closed"}
        /\ state = "Terminating" => ENABLED Finish)
  /\ [][(ptyStatus = "run" /\ ptyStatus' = "ok")
          => /\ ptyOut = <<>> /\ ~procOpen
             /\ UNCHANGED <<queue, enqHist, ptyRead, ptyOut, stopSent>>
             /\ state' = "Terminating"]_vars
  /\ [][state = "Terminating" => state' = "Closed"]_vars

\* the process exited after some output, the pump read it all and ended on the
\* read of no bytes while the other two activities were still running
C15_Witness ==
  /\ ptyStatus = "ok" /\ wsStatus = "run" /\ wrStatus = "run"
  /\ state = "Closed"
  /\ ptyRead # <<>>

\* C16: the step that takes the Resize frame with the truncated payload resizes
\* nothing and ends the pump with an error, not a panic, and the session goes
\* to Terminating; the step that takes the Resize frame of 80 columns and 24
\* rows either applies exactly that size and lets the pump go on, or, when
\* the resize call itself fails, applies nothing and ends the pump with an
\* error; a pump that has ended with an error handles nothing more.
C16_ResizeDecodeError ==
  /\ [][(wsHandled' # wsHandled /\ Head(inbound) = ResizeBad)
          => /\ resizes' = resizes
             /\ wsStatus' = "err"
             /\ state' = "Terminating"
             /\ UNCHANGED <<ptyIn, writeCalls, queue, enqHist>>]_vars
  /\ [][(wsHandled' # wsHandled /\ Head(inbound) = ResizeOk)
          => \/ /\ resizes' = Append(resizes, <<80, 24>>)
                /\ wsStatus' = "run" /\ state' = "Running"
             \/ /\ resizes' = resizes
                /\ wsStatus' = "err" /\ state' = "Terminating"]_vars
  /\ [][wsStatus = "err"
          => UNCHANGED <<wsStatus, wsHandled, resizes, ptyIn, writeCalls>>]_vars

\* the truncated Resize ended the pump and the session, and no resize was made
C16_Witness ==
  /\ wsHandled = <<ResizeBad>>
  /\ resizes = <<>>
  /\ wsStatus = "err"
  /\ state = "Closed"

\* C17: the step that leaves Bootstrapping without a spawned process goes to
\* Failed; in Failed none of the three activities was ever started, nothing
\* was put on the channel or sent on the socket, nothing was written to or
\* read from a process and no stop signal was sent; and Failed is never left.
C17_SpawnFailureFailsSession ==
  /\ [][(state = "Bootstrapping" /\ state' # "Bootstrapping" /\ ~procOpen')
          => state' = "Failed"]_vars
  /\ [](state = "Failed" =>
          /\ ~procOpen
          /\ wsStatus = "idle" /\ ptyStatus = "idle" /\ wrStatus = "idle"
          /\ enqHist = <<>> /\ queue = <<>> /\ inflight = <<>> /\ wire = <<>>
          /\ ptyIn = <<>> /\ resizes = <<>> /\ ptyRead = <<>> /\ wsHandled = <<>>
          /\ stopSent = 0)
  /\ [][state = "Failed" => state' = "Failed"]_vars

\* the client named a command and sent an Input frame, and the spawn failed
C17_Witness ==
  /\ state = "Failed"
  /\ sent = <<TextCmd, InputHi>>
  /\ inbound = <<InputHi>>

\* C18: the stop signal is sent at most once in a session, and only by the
\* client-to-process pump as it returns Ok.
C18_StopSentAtMostOnce ==
  /\ stopSent <= 1
  /\ stopSent = 1 => wsStatus = "ok"

\* the stream ended after the process-side pump was already at its end: the
\* signal was sent once and the session closed
C18_Witness ==
  /\ stopSent = 1
  /\ state = "Closed"
  /\ ~procOpen
  /\ wsHandled # <<>>

\* C19: a binary message the pump has taken leaves the pump running or
\* returned, with Ok or with an error; the pump never panics and the session
\* always ends through select!.
C19_BinaryNeverCrashesPump ==
  /\ wsStatus # "panic"
  /\ state # "Panicked"

====
